---- MODULE Spec2Model ----
(***************************************************************************)
(* Chat With Cat: the background service worker (js/background.js) and the *)
(* save handler of the setup page (js/setup.js).                           *)
(*                                                                         *)
(* Strings are sequences of tokens, so that template literals are          *)
(* concatenations (\o) and String.includes is a search for a token.        *)
(* Time is Date.now() in milliseconds.  A timer set with setTimeout(f, d)  *)
(* runs f when the clock reaches its deadline: the clock never passes the  *)
(* deadline of a pending timer, and a due timer runs before anything else. *)
(***************************************************************************)
EXTENDS Integers, Sequences, FiniteSets, TLC

\* ===== CONFIGURATION (background.js 13-20, 108) =====
CACHE_EXPIRY == 1800000
DEBOUNCE_DELAY == 300
MAX_RETRIES == 3
INITIAL_RETRY_DELAY == 1000
DELIVERY_RETRIES == 3
DELIVERY_DELAY == 500

\* ===== BOUNDS =====
\* calls of fetchAIResponse (context-menu clicks) in one behaviour
MaxClicks == 2
\* steps of the clock that are not jumps to a timer's deadline
MaxTicks == 1
\* saves on the setup page in one behaviour
MaxSaves == 1
\* calls of fetchAIResponse where every kind of response is tried
MaxClicksAlone == 1
\* runs of the body under way when the user makes a new selection, where the
\* time between the selections is what matters
MaxActive == 1

\* ===== STRINGS =====
Empty == <<>>

Includes(s, tok) ==
    \E i \in 1..Len(s) : s[i] = tok

StartsWith(s, p) ==
    /\ Len(s) >= Len(p)
    /\ SubSeq(s, 1, Len(p)) = p

IsPrefix(s, t) == Len(s) <= Len(t) /\ SubSeq(t, 1, Len(s)) = s

\* s.split(tok)[1]: what follows the first tok, up to the next one;
\* the string "undefined" when s has no tok.
SplitSecond(s, tok) ==
    IF ~Includes(s, tok) THEN <<"undefined">>
    ELSE LET i == CHOOSE k \in 1..Len(s) :
                      s[k] = tok /\ \A j \in 1..(k-1) : s[j] # tok
             rest == SubSeq(s, i + 1, Len(s))
         IN  IF ~Includes(rest, tok) THEN rest
             ELSE LET n == CHOOSE k \in 1..Len(rest) :
                               rest[k] = tok /\ \A j \in 1..(k-1) : rest[j] # tok
                  IN  SubSeq(rest, 1, n - 1)

\* String.prototype.trim: the white space at both ends is dropped
RECURSIVE TrimStart(_)
TrimStart(s) ==
    IF s # <<>> /\ Head(s) = " " THEN TrimStart(Tail(s)) ELSE s

RECURSIVE TrimEnd(_)
TrimEnd(s) ==
    IF s # <<>> /\ s[Len(s)] = " " THEN TrimEnd(SubSeq(s, 1, Len(s) - 1)) ELSE s

\* a bug of the setup page: the fields are taken as they were typed
TrimNothing(s) == s

Trim(s) == TrimEnd(TrimStart(s))

Min(S) == CHOOSE x \in S : \A y \in S : x <= y

Pow2(n) == 2 ^ n

ErrorMarker == <<"Error: ">>
KeyHint == <<". Please check your API key in the extension settings.">>
ModelHint == <<". Please verify the model name in the extension settings.">>
FormatMsg == <<"Unexpected API response format">>
NetworkMsg == <<"Network error. Please check your internet connection.">>
FailedToFetch == <<"Failed to fetch">>
NotConfiguredMsg == <<"AI provider not configured. Please set up the extension first.">>
NoModelMsg == <<"No model selected. Please configure a model in the extension settings.">>
NoKeyMsg == <<"API key not found. Please set up your API key in the extension settings.">>

Providers == {"gemini", "openrouter", "groq"}

StatusStr(n) ==
    CASE n = 200 -> "200"
      [] n = 400 -> "400"
      [] n = 401 -> "401"
      [] n = 404 -> "404"
      [] OTHER   -> "500"

HttpErrorMsg(status) == <<"HTTP error! status: ", StatusStr(status)>>

\* ===== API PROVIDER IMPLEMENTATIONS =====
\* What the provider's endpoint does with one request:
\*   net     fetch() itself rejects with TypeError("Failed to fetch")
\*   status  the HTTP status
\*   json    the body parses as JSON
\*   errMsg  error.message of the body (Empty: the body has no error)
\*   errType error.type of the body
\*   answer  the answer field of the body (Empty: missing or empty)
\* The result of fetchResponse is [ok |-> TRUE, val |-> answer] or
\* [ok |-> FALSE, val |-> message of the Error thrown].
Ok(r) == r.status >= 200 /\ r.status <= 299

Return(v) == [ok |-> TRUE, val |-> v]
Throw(m) == [ok |-> FALSE, val |-> m]

JsonSyntaxMsg == <<"Unexpected token < in JSON at position 0">>
NullReadMsg == <<"Cannot read properties of null (reading 'choices')">>

GeminiFetchResponse(r) ==
    IF r.net THEN Throw(FailedToFetch)
    ELSE IF ~Ok(r) THEN
        IF r.json /\ r.errMsg # Empty THEN
            IF Includes(r.errMsg, "API key not valid") THEN Throw(r.errMsg \o KeyHint)
            ELSE IF Includes(r.errMsg, "Model not found") THEN Throw(r.errMsg \o ModelHint)
            ELSE Throw(r.errMsg)
        ELSE Throw(HttpErrorMsg(r.status))
    ELSE IF ~r.json THEN Throw(JsonSyntaxMsg)
    ELSE IF r.answer = Empty THEN Throw(FormatMsg)
    ELSE Return(r.answer)

OpenrouterFetchResponse(r) ==
    IF r.net THEN Throw(FailedToFetch)
    ELSE IF ~Ok(r) THEN
        IF r.json /\ r.errMsg # Empty THEN
            IF r.status = 401 THEN Throw(r.errMsg \o KeyHint)
            ELSE IF r.status = 404 THEN Throw(r.errMsg \o ModelHint)
            ELSE Throw(r.errMsg)
        ELSE Throw(HttpErrorMsg(r.status))
    ELSE IF ~r.json THEN Throw(JsonSyntaxMsg)
    ELSE IF r.answer = Empty THEN Throw(FormatMsg)
    ELSE Return(r.answer)

\* the try block of groq.fetchResponse (lines 236-284)
GroqTry(r, model) ==
    IF r.net THEN Throw(FailedToFetch)
    ELSE IF ~Ok(r) \/ (r.json /\ r.errMsg # Empty) THEN
        LET base ==
                IF r.json /\ r.errMsg # Empty THEN
                    IF Includes(r.errMsg, "has been decommissioned")
                    THEN <<"Model ">> \o model
                           \o <<" is no longer available. Please check ">>
                           \o SplitSecond(r.errMsg, "refer to ")
                    ELSE IF r.errType = "invalid_request_error"
                    THEN <<"Invalid model name. Please check available models at console.groq.com/docs">>
                    ELSE r.errMsg
                ELSE HttpErrorMsg(r.status)
        IN  IF r.status = 401 THEN Throw(base \o KeyHint) ELSE Throw(base)
    ELSE IF ~r.json THEN Throw(NullReadMsg)
    ELSE IF r.answer = Empty THEN Throw(FormatMsg)
    ELSE Return(r.answer)

\* the catch block of groq.fetchResponse (lines 285-290)
GroqFetchResponse(r, model) ==
    LET t == GroqTry(r, model)
    IN  IF ~t.ok /\ Includes(t.val, "Failed to fetch") THEN Throw(NetworkMsg) ELSE t

\* apiProviders[activeProvider].fetchResponse(text, config)
FetchResponse(provider, model, r) ==
    CASE provider = "gemini"     -> GeminiFetchResponse(r)
      [] provider = "openrouter" -> OpenrouterFetchResponse(r)
      [] OTHER                   -> GroqFetchResponse(r, model)


\* a bug of the cache key: the model is left out
CacheKeyNoModel(text, provider, model) ==
    text \o <<"-">> \o <<provider>>

\* cacheKey = `${text}-${activeProvider}-${config.selectedModel}` (line 324)
CacheKey(text, provider, model) ==
    text \o <<"-">> \o <<provider>> \o <<"-">> \o model

\* a bug of the cache check: an entry of exactly 30 minutes counts as valid
CacheFreshInclusive(cache, key, t) ==
    /\ key \in DOMAIN cache
    /\ t - cache[key].timestamp <= CACHE_EXPIRY

\* cachedResponse && Date.now() - cachedResponse.timestamp < CACHE_EXPIRY (line 326)
CacheFresh(cache, key, t) ==
    /\ key \in DOMAIN cache
    /\ t - cache[key].timestamp < CACHE_EXPIRY

\* a bug of the validation: the API key is not checked
ConfigErrorNoKeyCheck(st) ==
    IF ~st.hasApiConfig \/ st.activeProvider = "" \/ st.activeProvider \notin DOMAIN st.apiConfig
    THEN NotConfiguredMsg
    ELSE IF st.apiConfig[st.activeProvider].selectedModel = Empty THEN NoModelMsg
    ELSE Empty

\* the checks of lines 308-321: the message of the Error thrown, Empty if none
ConfigError(st) ==
    IF ~st.hasApiConfig \/ st.activeProvider = "" \/ st.activeProvider \notin DOMAIN st.apiConfig
    THEN NotConfiguredMsg
    ELSE IF st.apiConfig[st.activeProvider].selectedModel = Empty THEN NoModelMsg
    ELSE IF st.apiConfig[st.activeProvider].apiKey = Empty THEN NoKeyMsg
    ELSE Empty

\* `Error: ${error.message}` (line 352)
ErrorText(msg) == ErrorMarker \o msg

\* a bug of retryWithBackoff: the delay grows by initialDelay, it does not double
BackoffDelayLinear(retries) == INITIAL_RETRY_DELAY * (retries + 1)

\* delay = initialDelay * Math.pow(2, retries) (line 63)
BackoffDelay(retries) == INITIAL_RETRY_DELAY * Pow2(retries)

\* a bug of retryWithBackoff: one retry too many
RetriesExhaustedLate(retries) == retries > MAX_RETRIES

\* retries >= maxRetries (line 62)
RetriesExhausted(retries) == retries >= MAX_RETRIES

\* a bug of the delivery: the delay doubles
NextDeliveryDelay2Double(d2) == d2 * 2

\* delay * 1.5 (line 127), on delays kept in half milliseconds
NextDeliveryDelay2(d2) == (d2 * 3) \div 2

\* ===== INPUTS =====
Tabs == {1, 2}
Texts == {<<"hello">>, <<"cat">>}

Resp(net, status, json, errMsg, errType, answer) ==
    [net |-> net, status |-> status, json |-> json, errMsg |-> errMsg,
     errType |-> errType, answer |-> answer]

RespAnswer(a) == Resp(FALSE, 200, TRUE, Empty, "", a)
RespError(status, msg, type) == Resp(FALSE, status, TRUE, msg, type, Empty)
RespNoJson(status) == Resp(FALSE, status, FALSE, Empty, "", Empty)
RespNetDown == Resp(TRUE, 0, FALSE, Empty, "", Empty)
\* no request has ended yet
RespNone == Resp(FALSE, 0, FALSE, Empty, "", Empty)

VARIABLES
    now,            \* Date.now()
    ticks,          \* steps of the clock taken so far
    storage,        \* chrome.storage.local
    saves,          \* saves made on the setup page
    tabs,           \* the tabs that exist
    timeout,        \* the timer of debounce (line 38)
    clicks,         \* the calls of fetchAIResponse, in order
    tasks,          \* the runs of the debounced body (lines 302-354), in order
    responseCache,  \* line 14
    inbox           \* the messages the content scripts received, in order

vars == <<now, ticks, storage, saves, tabs, timeout, clicks, tasks, responseCache, inbox>>

NoTimer == [set |-> FALSE, text |-> Empty, tabId |-> 0, deadline |-> 0, call |-> 0]

FreshStorage == [hasApiConfig |-> FALSE, apiConfig |-> <<>>, activeProvider |-> ""]

Configured(p, key, model) ==
    [hasApiConfig |-> TRUE,
     apiConfig |-> [q \in {p} |-> [apiKey |-> key, selectedModel |-> model]],
     activeProvider |-> p]

\* what chrome.storage.local holds when the service worker starts
InitStorages ==
    {FreshStorage,
     Configured("gemini", <<"k1">>, <<"m1">>),
     Configured("groq", <<"k1">>, Empty),
     Configured("groq", Empty, <<"m1">>),
     [Configured("groq", <<"k1">>, <<"m1">>) EXCEPT !.activeProvider = ""],
     [Configured("groq", <<"k1">>, <<"m1">>) EXCEPT !.activeProvider = "gemini"]}

InitWith(storages) ==
    /\ now = 0
    /\ ticks = 0
    /\ storage \in storages
    /\ saves = 0
    /\ tabs = Tabs
    /\ timeout = NoTimer
    /\ clicks = <<>>
    /\ tasks = <<>>
    /\ responseCache = <<>>
    /\ inbox = <<>>

Init == InitWith(InitStorages)

\* ===== TIMERS =====
Sleeping(i) == tasks[i].pc \in {"sleeping", "waiting"}

Deadlines ==
    (IF timeout.set THEN {timeout.deadline} ELSE {})
      \cup {tasks[i].wake : i \in {j \in 1..Len(tasks) : Sleeping(j)}}

\* a bug of the sleeps: a run that sleeps holds up every other step, as a
\* busy wait would
NoTimerDueNorSleep ==
    /\ \A d \in Deadlines : d > now
    /\ \A i \in 1..Len(tasks) : ~Sleeping(i)

\* no callback of a timer is waiting to run
NoTimerDue == \A d \in Deadlines : d > now

\* the clock moves by d, not past a pending timer
Tick(d) ==
    /\ ticks < MaxTicks
    /\ NoTimerDue
    /\ \A dl \in Deadlines : now + d <= dl
    /\ now' = now + d
    /\ ticks' = ticks + 1
    /\ UNCHANGED <<storage, saves, tabs, timeout, clicks, tasks, responseCache, inbox>>

\* the clock moves to the next deadline
Advance ==
    /\ Deadlines # {}
    /\ NoTimerDue
    /\ now' = Min(Deadlines)
    /\ UNCHANGED <<ticks, storage, saves, tabs, timeout, clicks, tasks, responseCache, inbox>>


\* ===== EVENT LISTENERS =====
\* a bug of debounce: a pending timer keeps the arguments of the call that set it
RearmKeepsArgs(old, text, tab, call) ==
    IF old.set
    THEN [old EXCEPT !.deadline = now + DEBOUNCE_DELAY]
    ELSE [set |-> TRUE, text |-> text, tabId |-> tab,
          deadline |-> now + DEBOUNCE_DELAY, call |-> call]

\* a bug of debounce: one timer for each tab, a call leaves the timer of another tab
RearmPerTab(old, text, tab, call) ==
    IF old.set /\ old.tabId # tab
    THEN old
    ELSE [set |-> TRUE, text |-> text, tabId |-> tab,
          deadline |-> now + DEBOUNCE_DELAY, call |-> call]

\* a bug of debounce: a call while the timer is pending does not restart it
RearmKeepsDeadline(old, text, tab, call) ==
    [set |-> TRUE, text |-> text, tabId |-> tab,
     deadline |-> IF old.set THEN old.deadline ELSE now + DEBOUNCE_DELAY, call |-> call]

\* executedFunction (lines 39-46): clearTimeout(timeout) drops the pending
\* timer `old`, setTimeout(later, wait) sets one that holds the arguments of this call
Rearm(old, text, tab, call) ==
    [set |-> TRUE, text |-> text, tabId |-> tab,
     deadline |-> now + DEBOUNCE_DELAY, call |-> call]

\* chrome.contextMenus.onClicked (lines 361-375): the loading notice goes to
\* the tab (every entry of clicks is one notice) and fetchAIResponse is called
Click(text, tab) ==
    /\ Len(clicks) < MaxClicks
    /\ NoTimerDue
    /\ tab \in tabs
    /\ text # Empty
    /\ clicks' = Append(clicks, [text |-> text, tabId |-> tab, at |-> now])
    /\ timeout' = Rearm(timeout, text, tab, Len(clicks) + 1)
    /\ UNCHANGED <<now, ticks, storage, saves, tabs, tasks, responseCache, inbox>>

\* setTimeout promises that `later` runs no sooner than the delay, not at
\* once when it is over: the timer of debounce is due and the event loop
\* has not run it yet; the clock goes on
TimerLate(d) ==
    /\ ticks < MaxTicks
    /\ timeout.set
    /\ timeout.deadline <= now
    /\ \A i \in 1..Len(tasks) : ~Sleeping(i)
    /\ now' = now + d
    /\ ticks' = ticks + 1
    /\ UNCHANGED <<storage, saves, tabs, timeout, clicks, tasks, responseCache, inbox>>

\* the listener of lines 361-375 runs while the timer of debounce is due
\* and `later` has not run: clearTimeout drops the timer that is due
ClickBeforeTimer(text, tab) ==
    /\ Len(clicks) < MaxClicks
    /\ timeout.set
    /\ timeout.deadline <= now
    /\ \A i \in 1..Len(tasks) : ~Sleeping(i)
    /\ tab \in tabs
    /\ text # Empty
    /\ clicks' = Append(clicks, [text |-> text, tabId |-> tab, at |-> now])
    /\ timeout' = Rearm(timeout, text, tab, Len(clicks) + 1)
    /\ UNCHANGED <<now, ticks, storage, saves, tabs, tasks, responseCache, inbox>>

\* ===== MAIN FUNCTIONALITY =====
NewTask(text, tab, call) ==
    [pc |-> "config", text |-> text, tabId |-> tab,
     provider |-> "", model |-> Empty, apiKey |-> Empty, cacheKey |-> Empty,
     retries |-> 0, wake |-> 0, payload |-> Empty,
     dRetries |-> 0, dDelay2 |-> 0,
     \* history of the run
     call |-> call, outcome |-> "", lookups |-> 0,
     attempts |-> 0, failures |-> 0, answer |-> Empty, delays |-> <<>>, only401 |-> TRUE, lastError |-> Empty,
     attemptAt |-> <<>>, failedAt |-> <<>>, handedAt |-> 0,
     firstError |-> Empty, lastResp |-> RespNone, handedBy |-> 0,
     read |-> FreshStorage, lookupAt |-> 0, found |-> FALSE, foundBy |-> 0,
     foundAt |-> 0, storedBefore |-> {}, storedAt |-> 0,
     deliveries |-> 0, sends |-> 0, dWaits |-> <<>>, calledWith |-> <<>>]

\* a bug of debounce: the run that starts cancels the runs still under way
DebounceFireCancels ==
    /\ timeout.set
    /\ timeout.deadline <= now
    /\ tasks' = Append([i \in 1..Len(tasks) |->
                            IF tasks[i].pc \in {"delivered", "gaveUp", "tabGone"}
                            THEN tasks[i]
                            ELSE [tasks[i] EXCEPT !.pc = "gaveUp"]],
                       NewTask(timeout.text, timeout.tabId, timeout.call))
    /\ timeout' = NoTimer
    /\ UNCHANGED <<now, ticks, storage, saves, tabs, clicks, responseCache, inbox>>

\* `later` (lines 40-43): the timer of debounce runs the body with the
\* arguments of the call that set it; the body calls chrome.storage.local.get
DebounceFire ==
    /\ timeout.set
    /\ timeout.deadline <= now
    /\ tasks' = Append(tasks, NewTask(timeout.text, timeout.tabId, timeout.call))
    /\ timeout' = NoTimer
    /\ UNCHANGED <<now, ticks, storage, saves, tabs, clicks, responseCache, inbox>>

\* sendResponseToContent(responseText, tabId) with its defaults (line 108):
\* chrome.tabs.get is called
StartDelivery(t, text, outcome) ==
    [t EXCEPT !.pc = "tabsGet", !.payload = text, !.outcome = outcome,
              !.dRetries = DELIVERY_RETRIES, !.dDelay2 = 2 * DELIVERY_DELAY,
              !.deliveries = @ + 1, !.handedAt = now]

\* a bug of the retry: each attempt takes the provider, the model and the
\* key that the store holds when the attempt is made
AdapterArgsFromStore(t, st) ==
    IF ConfigError(st) # Empty
    THEN [provider |-> t.provider, model |-> t.model, apiKey |-> t.apiKey]
    ELSE [provider |-> st.activeProvider,
          model |-> st.apiConfig[st.activeProvider].selectedModel,
          apiKey |-> st.apiConfig[st.activeProvider].apiKey]

\* () => apiProviders[activeProvider].fetchResponse(text, config) (line 336):
\* the closure holds the constants activeProvider and config of lines 305, 312
AdapterArgs(t, st) ==
    [provider |-> t.provider, model |-> t.model, apiKey |-> t.apiKey]

\* fn() of retryWithBackoff (lines 60, 336): the adapter sends its request
CallAdapter(t, st) ==
    [t EXCEPT !.pc = "fetching", !.attempts = @ + 1, !.attemptAt = Append(@, now),
              !.calledWith = Append(@, AdapterArgs(t, st))]

\* the runs that have written their answer to the cache
Stored == {j \in 1..Len(tasks) : tasks[j].outcome = "fetched"}

\* lines 305-339, from the answer of chrome.storage.local.get to the first
\* request of the adapter, or to the delivery of a cache hit or of an error
AfterConfig(t0, st, cache) ==
    LET t == [t0 EXCEPT !.read = st]
    IN  IF ConfigError(st) # Empty
        THEN StartDelivery(t, ErrorText(ConfigError(st)), "configError")
        ELSE LET p == st.activeProvider
                 c == st.apiConfig[p]
                 key == CacheKey(t.text, p, c.selectedModel)
                 has == key \in DOMAIN cache
                 u == [t EXCEPT !.provider = p, !.model = c.selectedModel,
                                !.apiKey = c.apiKey, !.cacheKey = key,
                                !.lookups = @ + 1, !.lookupAt = now,
                                !.found = has,
                                !.foundBy = IF has THEN cache[key].by ELSE 0,
                                !.foundAt = IF has THEN cache[key].timestamp ELSE 0,
                                !.storedBefore = Stored]
             IN  IF CacheFresh(cache, key, now)
                 THEN StartDelivery(u, cache[key].data, "hit")
                 ELSE CallAdapter(u, st)

ConfigResolved(i) ==
    /\ i \in 1..Len(tasks)
    /\ tasks[i].pc = "config"
    /\ NoTimerDue
    /\ tasks' = [tasks EXCEPT ![i] = AfterConfig(tasks[i], storage, responseCache)]
    /\ UNCHANGED <<now, ticks, storage, saves, tabs, timeout, clicks, responseCache, inbox>>

StorageErrorMsg == <<"storage read failed">>

\* chrome.storage.local.get rejects: the catch of line 350
ConfigReadFails(i) ==
    /\ i \in 1..Len(tasks)
    /\ tasks[i].pc = "config"
    /\ NoTimerDue
    /\ tasks' = [tasks EXCEPT ![i] =
                    StartDelivery(tasks[i], ErrorText(StorageErrorMsg), "configError")]
    /\ UNCHANGED <<now, ticks, storage, saves, tabs, timeout, clicks, responseCache, inbox>>

\* a bug of the fetch path: the answer is delivered and not kept
CachePutNothing(cache, key, data, i) == cache

\* responseCache.set(cacheKey, {data, timestamp: Date.now()}) (lines 342-345)
CachePut(cache, key, data, i) ==
    [k \in DOMAIN cache \cup {key} |->
        IF k = key THEN [data |-> data, timestamp |-> now, by |-> i] ELSE cache[k]]

\* a bug of retryWithBackoff: the error of the first attempt is the one thrown
AfterFailureFirstError(t, msg) ==
    IF RetriesExhausted(t.retries)
    THEN StartDelivery(t, ErrorText(t.firstError), "failed")
    ELSE [t EXCEPT !.pc = "sleeping",
                   !.wake = now + BackoffDelay(t.retries),
                   !.delays = Append(@, BackoffDelay(t.retries))]

\* a bug of retryWithBackoff: an error about the API key is not retried
AfterFailureFastFail(t, msg) ==
    IF RetriesExhausted(t.retries) \/ Includes(msg, KeyHint[1])
    THEN StartDelivery(t, ErrorText(msg), "failed")
    ELSE [t EXCEPT !.pc = "sleeping",
                   !.wake = now + BackoffDelay(t.retries),
                   !.delays = Append(@, BackoffDelay(t.retries))]

\* a bug of the fetch path: the error of the last attempt is swallowed and
\* nothing is sent to the tab
AfterFailureSilent(t, msg) ==
    IF RetriesExhausted(t.retries)
    THEN [t EXCEPT !.pc = "gaveUp"]
    ELSE [t EXCEPT !.pc = "sleeping",
                   !.wake = now + BackoffDelay(t.retries),
                   !.delays = Append(@, BackoffDelay(t.retries))]

\* the run whose answer the cache holds under key, 0 if it holds none
WrittenBy(cache, key) == IF key \in DOMAIN cache THEN cache[key].by ELSE 0

\* a bug of the fetch path: the error of a failed attempt is kept like an answer
CacheOnFailureStores(cache, key, msg, i) ==
    CachePut(cache, key, ErrorText(msg), i)

\* the catch blocks (lines 61-65, 350-353) do not touch responseCache
CacheOnFailure(cache, key, msg, i) == cache

\* the catch of retryWithBackoff (lines 61-65) and of the body (lines 350-353)
AfterFailure(t, msg) ==
    IF RetriesExhausted(t.retries)
    THEN StartDelivery(t, ErrorText(msg), "failed")
    ELSE [t EXCEPT !.pc = "sleeping",
                   !.wake = now + BackoffDelay(t.retries),
                   !.delays = Append(@, BackoffDelay(t.retries))]

\* the request of the adapter ends with response r (lines 335-353)
AdapterResponds(i, r) ==
    /\ i \in 1..Len(tasks)
    /\ tasks[i].pc = "fetching"
    /\ NoTimerDue
    /\ LET t == [tasks[i] EXCEPT !.only401 = @ /\ ~r.net /\ r.status = 401,
                                 !.lastResp = r]
           with == t.calledWith[Len(t.calledWith)]
           res == FetchResponse(with.provider, with.model, r)
       IN  IF res.ok
           THEN \* responseCache.set(..), then sendResponseToContent(..)
                LET written == CachePut(responseCache, t.cacheKey, res.val, i)
                IN  /\ responseCache' = written
                    /\ tasks' = [tasks EXCEPT ![i] =
                                    StartDelivery([t EXCEPT !.storedAt = now, !.answer = r.answer,
                                                            !.handedBy = WrittenBy(written, t.cacheKey)],
                                                  res.val, "fetched")]
           ELSE /\ responseCache' = CacheOnFailure(responseCache, t.cacheKey, res.val, i)
                /\ tasks' = [tasks EXCEPT ![i] =
                                AfterFailure([t EXCEPT !.lastError = res.val, !.failures = @ + 1,
                                                       !.failedAt = Append(@, now),
                                                       !.firstError =
                                                           IF t.failures = 0 THEN res.val ELSE @],
                                             res.val)]
    /\ UNCHANGED <<now, ticks, storage, saves, tabs, timeout, clicks, inbox>>

\* the sleep of line 64 ends: retries++ and the next fn()
BackoffFire(i) ==
    /\ i \in 1..Len(tasks)
    /\ tasks[i].pc = "sleeping"
    /\ tasks[i].wake <= now
    /\ tasks' = [tasks EXCEPT ![i] = CallAdapter([@ EXCEPT !.retries = @ + 1], storage)]
    /\ UNCHANGED <<now, ticks, storage, saves, tabs, timeout, clicks, responseCache, inbox>>

\* ===== CONTENT COMMUNICATION =====
\* a bug of the delivery: a failed send uses up a retry of the fetch
AfterSendErrorSharedBudget(t) ==
    IF t.dRetries > 0
    THEN [t EXCEPT !.pc = "waiting", !.wake = now + (t.dDelay2 \div 2),
                   !.dWaits = Append(@, t.dDelay2 \div 2), !.retries = @ + 1]
    ELSE [t EXCEPT !.pc = "gaveUp"]

\* a bug of the delivery: a tab that is gone is tried again like a failed send
AfterTabsGetRetry(t, open) ==
    IF t.tabId \notin open
    THEN (IF t.dRetries > 0
          THEN [t EXCEPT !.pc = "waiting", !.wake = now + (t.dDelay2 \div 2),
                         !.dWaits = Append(@, t.dDelay2 \div 2)]
          ELSE [t EXCEPT !.pc = "tabGone"])
    ELSE [t EXCEPT !.pc = "sending", !.sends = @ + 1]

\* the callback of chrome.tabs.get (lines 110-116)
AfterTabsGet(t, open) ==
    IF t.tabId \notin open
    THEN [t EXCEPT !.pc = "tabGone"]
    ELSE [t EXCEPT !.pc = "sending", !.sends = @ + 1]

TabsGetReturns(i) ==
    /\ i \in 1..Len(tasks)
    /\ tasks[i].pc = "tabsGet"
    /\ NoTimerDue
    /\ tasks' = [tasks EXCEPT ![i] = AfterTabsGet(tasks[i], tabs)]
    /\ UNCHANGED <<now, ticks, storage, saves, tabs, timeout, clicks, responseCache, inbox>>

\* the callback of chrome.tabs.sendMessage when lastError is set (lines 120-133)
AfterSendError(t) ==
    IF t.dRetries > 0
    THEN [t EXCEPT !.pc = "waiting", !.wake = now + (t.dDelay2 \div 2),
                   !.dWaits = Append(@, t.dDelay2 \div 2)]
    ELSE [t EXCEPT !.pc = "gaveUp"]

\* the content script of the tab answers: it has the message (lines 116-119)
\* a bug of the delivery: the callback schedules the next send whether or
\* not the send has failed
AfterSendOkRetries(t) == AfterSendError(t)

\* the callback of chrome.tabs.sendMessage without lastError (lines 120-121):
\* nothing is scheduled
AfterSendOk(t) == [t EXCEPT !.pc = "delivered"]

SendMessageOk(i) ==
    /\ i \in 1..Len(tasks)
    /\ tasks[i].pc = "sending"
    /\ NoTimerDue
    /\ tasks[i].tabId \in tabs
    /\ inbox' = Append(inbox, [tabId |-> tasks[i].tabId, action |-> "displayResponse",
                               body |-> tasks[i].payload, task |-> i,
                               call |-> tasks[i].call])
    /\ tasks' = [tasks EXCEPT ![i] = AfterSendOk(tasks[i])]
    /\ UNCHANGED <<now, ticks, storage, saves, tabs, timeout, clicks, responseCache>>

\* no content script answers in the tab, or the tab is gone
SendMessageFails(i) ==
    /\ i \in 1..Len(tasks)
    /\ tasks[i].pc = "sending"
    /\ NoTimerDue
    /\ tasks' = [tasks EXCEPT ![i] = AfterSendError(tasks[i])]
    /\ UNCHANGED <<now, ticks, storage, saves, tabs, timeout, clicks, responseCache, inbox>>

\* the timer of line 126 runs sendResponseToContent(.., retries - 1, delay * 1.5)
DeliveryTimerFire(i) ==
    /\ i \in 1..Len(tasks)
    /\ tasks[i].pc = "waiting"
    /\ tasks[i].wake <= now
    /\ tasks' = [tasks EXCEPT ![i] =
                    [@ EXCEPT !.pc = "tabsGet", !.dRetries = @ - 1,
                              !.dDelay2 = NextDeliveryDelay2(@)]]
    /\ UNCHANGED <<now, ticks, storage, saves, tabs, timeout, clicks, responseCache, inbox>>

\* ===== ENVIRONMENT =====
CloseTab(tab) ==
    /\ tab \in tabs
    /\ NoTimerDue
    /\ tabs' = tabs \ {tab}
    /\ UNCHANGED <<now, ticks, storage, saves, timeout, clicks, tasks, responseCache, inbox>>

\* setup.js, the click handler of the save button (lines 86-122)
SavedStorage(st, provider, apiKey, selectedModel) ==
    [hasApiConfig |-> TRUE,
     apiConfig |-> [q \in (IF st.hasApiConfig THEN DOMAIN st.apiConfig ELSE {}) \cup {provider} |->
                       IF q = provider
                       THEN [apiKey |-> apiKey, selectedModel |-> selectedModel]
                       ELSE st.apiConfig[q]],
     activeProvider |-> provider]

\* the fields of the page are provider, apiKey and selectedModel as typed
Save(provider, apiKey, selectedModel) ==
    /\ saves < MaxSaves
    /\ NoTimerDue
    /\ saves' = saves + 1
    /\ storage' = IF provider = "" \/ Trim(apiKey) = Empty \/ Trim(selectedModel) = Empty
                  THEN storage
                  ELSE SavedStorage(storage, provider, Trim(apiKey), Trim(selectedModel))
    /\ UNCHANGED <<now, ticks, tabs, timeout, clicks, tasks, responseCache, inbox>>

\* ===== SPECIFICATIONS =====
Slots == 1..MaxClicks

\* the steps of a run whose requests are answered by r \in rs and whose tab
\* has a content script that answers
Runs(rs) ==
    \/ DebounceFire
    \/ \E i \in Slots : ConfigResolved(i)
    \/ \E i \in Slots, r \in rs : AdapterResponds(i, r)
    \/ \E i \in Slots : TabsGetReturns(i)
    \/ \E i \in Slots : SendMessageOk(i)

\* the sleeps of retryWithBackoff end
Retries == \E i \in Slots : BackoffFire(i)

\* the ends of a run
Final == {"delivered", "gaveUp", "tabGone"}

Active == Cardinality({i \in 1..Len(tasks) : tasks[i].pc \notin Final})

\* a selection made when no run of the body is under way
ClickAlone(text, tab) == Len(clicks) < MaxClicksAlone /\ Active = 0 /\ Click(text, tab)

\* a selection made when fewer than MaxActive runs are under way
ClickCalm(text, tab) == Active < MaxActive /\ Click(text, tab)

\* -- debounce: bursts of clicks on two tabs, every request answered
DebounceSteps == {DEBOUNCE_DELAY - 1}

InitDebounce == InitWith({Configured("gemini", <<"k1">>, <<"m1">>)})

\* the selections of the user: <<text, tab>>
DebounceClicks == {<<<<"hello">>, 1>>, <<<<"cat">>, 1>>, <<<<"cat">>, 2>>}

NextDebounce ==
    \/ \E d \in DebounceSteps : Tick(d)
    \/ Advance
    \/ \E c \in DebounceClicks : ClickCalm(c[1], c[2])
    \/ Runs({RespAnswer(<<"meow">>)})

SpecDebounce == InitDebounce /\ [][NextDebounce]_vars

\* the timers fire, chrome.storage, the provider and the content script
\* answer: every step of a run that can be taken is taken
RunFairness ==
    /\ WF_vars(Advance)
    /\ WF_vars(DebounceFire)
    /\ \A i \in Slots :
          /\ WF_vars(ConfigResolved(i))
          /\ WF_vars(AdapterResponds(i, RespAnswer(<<"meow">>)))
          /\ WF_vars(TabsGetReturns(i))
          /\ WF_vars(SendMessageOk(i))

SpecDebounceFair == SpecDebounce /\ RunFairness

\* -- retry: one provider configured, every request may fail
AuthMsg == <<"Invalid API Key">>
GeminiKeyMsg == <<"API key not valid", ". Please pass a valid API key.">>

RetryResponses ==
    {RespAnswer(<<"meow">>),
     RespError(401, AuthMsg, "invalid_api_key"),
     RespError(401, GeminiKeyMsg, ""),
     RespNoJson(401),
     RespNetDown}

InitRetry == InitWith({Configured(p, <<"k1">>, <<"m1">>) : p \in Providers})

NextRetry ==
    \/ Advance
    \/ ClickAlone(<<"hello">>, 1)
    \/ Runs(RetryResponses)
    \/ Retries

SpecRetry == InitRetry /\ [][NextRetry]_vars

\* -- kinds of failure: every request ends in one of the ways an adapter
\* tells apart
ModelMsg == <<"Model not found", ": m1">>

KindResponses ==
    {RespAnswer(<<"meow">>),
     RespError(401, AuthMsg, "invalid_api_key"),
     RespError(404, ModelMsg, "invalid_request_error"),
     RespAnswer(Empty),
     RespNoJson(200),
     RespNoJson(500),
     RespNetDown}

NextKinds ==
    \/ Advance
    \/ ClickAlone(<<"hello">>, 1)
    \/ Runs(KindResponses)
    \/ Retries

SpecKinds == InitRetry /\ [][NextKinds]_vars

\* -- cache: the same text asked again, sooner or later than the expiry,
\* under the same or another provider and model
CacheSteps == {CACHE_EXPIRY - DEBOUNCE_DELAY - 1, CACHE_EXPIRY - DEBOUNCE_DELAY}

TwoAnswers == {RespAnswer(<<"meow">>), RespAnswer(<<"purr">>)}

InitCache == InitWith({Configured("gemini", <<"k1">>, <<"m1">>)})

NextCache ==
    \/ \E d \in CacheSteps : Tick(d)
    \/ Advance
    \/ ClickCalm(<<"hello">>, 1)
    \/ Runs(TwoAnswers)

SpecCache == InitCache /\ [][NextCache]_vars

\* -- cache key: the same text asked again after the user has saved another
\* model or another provider on the setup page
KeySaves == {<<"gemini", <<"m2">>>>, <<"groq", <<"m1">>>>}

NextKey ==
    \/ Advance
    \/ \E text \in Texts : ClickCalm(text, 1)
    \/ \E c \in KeySaves : Save(c[1], <<"k1">>, c[2])
    \/ Runs(TwoAnswers)

SpecKey == InitCache /\ [][NextKey]_vars

\* -- separator: texts and model names that contain the '-' of the cache key
SeparatorTexts == {<<"a">>, <<"a", "-", "gemini">>}

SeparatorModels == {<<"gemini", "-", "m">>, <<"m">>}

InitSeparator == InitWith({Configured("gemini", <<"k1">>, m) : m \in SeparatorModels})

NextSeparator ==
    \/ Advance
    \/ \E text \in SeparatorTexts : ClickCalm(text, 1)
    \/ \E m \in SeparatorModels : Save("gemini", <<"k1">>, m)
    \/ Runs(TwoAnswers)

SpecSeparator == InitSeparator /\ [][NextSeparator]_vars

\* -- configuration: every state of the store, repaired by a save
OneAnswer == {RespAnswer(<<"meow">>)}

NextConfig ==
    \/ Advance
    \/ \E tab \in Tabs : ClickCalm(<<"hello">>, tab)
    \/ Save("gemini", <<"k1">>, <<"m1">>)
    \/ \E i \in Slots : ConfigReadFails(i)
    \/ Runs(OneAnswer)

SpecConfig == Init /\ [][NextConfig]_vars

\* -- delivery: the tab closes, or its content script does not answer
NextDelivery ==
    \/ Advance
    \/ \E tab \in Tabs : ClickAlone(<<"hello">>, tab)
    \/ \E tab \in Tabs : CloseTab(tab)
    \/ Runs(OneAnswer)
    \/ \E i \in Slots : SendMessageFails(i)
    \/ \E i \in Slots : DeliveryTimerFire(i)

SpecDelivery == InitCache /\ [][NextDelivery]_vars

\* the callbacks of chrome.tabs.get, chrome.tabs.sendMessage and setTimeout
\* are run in the end
DeliveryFairness ==
    /\ WF_vars(Advance)
    /\ \A i \in Slots :
          /\ WF_vars(TabsGetReturns(i))
          /\ WF_vars(SendMessageOk(i) \/ SendMessageFails(i))
          /\ WF_vars(DeliveryTimerFire(i))

SpecDeliveryFair == SpecDelivery /\ DeliveryFairness

\* -- dispatch: every way a dispatch can end
ErrorLikeAnswer == <<"Error: ", "is how the page starts">>

DispatchResponses == {RespAnswer(<<"meow">>), RespAnswer(ErrorLikeAnswer), RespNetDown}

InitDispatch == InitWith({FreshStorage, Configured("gemini", <<"k1">>, <<"m1">>)})

NextDispatch ==
    \/ Advance
    \/ ClickCalm(<<"hello">>, 1)
    \/ \E i \in Slots : ConfigReadFails(i)
    \/ Runs(DispatchResponses)
    \/ Retries

SpecDispatch == InitDispatch /\ [][NextDispatch]_vars

\* -- frame: dispatches one after the other that end in every way, and
\* deliveries that fail
ClickNext(text, tab) == Active = 0 /\ Click(text, tab)

FrameResponses == {RespAnswer(<<"meow">>), RespNetDown}

NextFrame ==
    \/ Advance
    \/ ClickNext(<<"hello">>, 1)
    \/ CloseTab(1)
    \/ \E i \in Slots : ConfigReadFails(i)
    \/ Runs(FrameResponses)
    \/ Retries
    \/ \E i \in Slots : SendMessageFails(i)
    \/ \E i \in Slots : DeliveryTimerFire(i)

\* -- saves: every state of the store, and the fields of the setup page filled
\* in every way
SaveProviders == Providers \cup {""}
SaveKeys == {Empty, <<" ">>, <<"k1">>, <<" ", "k2", " ">>}
SaveModels == {Empty, <<"m1">>, <<"m2", " ">>}

NextSave ==
    \/ Advance
    \/ ClickAlone(<<"hello">>, 1)
    \/ \E p \in SaveProviders, k \in SaveKeys, m \in SaveModels : Save(p, k, m)
    \/ Runs(OneAnswer)

SpecSave == Init /\ [][NextSave]_vars

SpecFrame == InitDispatch /\ [][NextFrame]_vars

\* the reading of the configuration and every call of an adapter come back,
\* with a result or with a failure, and the timers fire
FetchFairness ==
    /\ WF_vars(Advance)
    /\ WF_vars(DebounceFire)
    /\ \A i \in Slots :
          /\ WF_vars(ConfigResolved(i) \/ ConfigReadFails(i))
          /\ WF_vars(\E r \in FrameResponses : AdapterResponds(i, r))
          /\ WF_vars(BackoffFire(i))

SpecFrameFair == SpecFrame /\ FetchFairness

\* -- snapshot: the user saves another provider, model and key on the setup
\* page while a run is inside retryWithBackoff
Fetching == {i \in 1..Len(tasks) : tasks[i].pc \in {"fetching", "sleeping"}}

SaveDuringFetch(provider, apiKey, selectedModel) ==
    Fetching # {} /\ Save(provider, apiKey, selectedModel)

NextSnapshot ==
    \/ Advance
    \/ ClickNext(<<"hello">>, 1)
    \/ \E c \in KeySaves : SaveDuringFetch(c[1], <<"k2">>, c[2])
    \/ Runs(FrameResponses)
    \/ Retries

SpecSnapshot == InitCache /\ [][NextSnapshot]_vars

\* -- overlap: a selection made while earlier runs are still under way.
\* The requests and the messages of the first run may fail; the later runs
\* find the provider and the content script answering.  A selection is made
\* while at most one run is under way: the runs overlap two by two.
ClickOverlap(text, tab) == Active <= 1 /\ Click(text, tab)

NextOverlap ==
    \/ Advance
    \/ \E tab \in Tabs : ClickOverlap(<<"hello">>, tab)
    \/ AdapterResponds(1, RespNetDown)
    \/ BackoffFire(1)
    \/ SendMessageFails(1)
    \/ DeliveryTimerFire(1)
    \/ Runs(OneAnswer)

SpecOverlap == InitCache /\ [][NextOverlap]_vars

\* -- no cancellation: selections in either tab while the first run is in
\* its retries; every message is taken by the content script
NextNoCancel ==
    \/ Advance
    \/ \E tab \in Tabs : ClickOverlap(<<"hello">>, tab)
    \/ AdapterResponds(1, RespNetDown)
    \/ BackoffFire(1)
    \/ Runs(OneAnswer)

\* the event loop runs the callbacks that are due, the clock goes on, and
\* the requests to chrome and to the provider end: each step of a run that
\* can be taken is taken
NoCancelFairness ==
    /\ WF_vars(Advance)
    /\ WF_vars(DebounceFire)
    /\ WF_vars(BackoffFire(1))
    /\ \A i \in Slots :
          /\ WF_vars(ConfigResolved(i))
          /\ WF_vars(AdapterResponds(i, RespAnswer(<<"meow">>)) \/ AdapterResponds(i, RespNetDown))
          /\ WF_vars(TabsGetReturns(i))
          /\ WF_vars(SendMessageOk(i))

SpecNoCancel == InitCache /\ [][NextNoCancel]_vars /\ NoCancelFairness

\* -- late timers: the callback of the debounce timer may run after its
\* deadline, and a selection may be handled before it
LateSteps == {1}

NextLate ==
    \/ \E d \in DebounceSteps : Tick(d)
    \/ \E d \in LateSteps : TimerLate(d)
    \/ Advance
    \/ \E c \in DebounceClicks : ClickCalm(c[1], c[2])
    \/ \E c \in DebounceClicks : ClickBeforeTimer(c[1], c[2])
    \/ Runs(OneAnswer)

SpecLate == InitDebounce /\ [][NextLate]_vars

\* ----- debounce -----
Gap(k) == clicks[k + 1].at - clicks[k].at

\* call k is the last call of its burst: no call follows it within the delay
LastOfBurst(k) == k = Len(clicks) \/ Gap(k) >= DEBOUNCE_DELAY

RunsOf(k) == {i \in 1..Len(tasks) : tasks[i].call = k}

Traces(k) ==
    \/ RunsOf(k) # {}
    \/ \E m \in 1..Len(inbox) : inbox[m].call = k

\* C7: debounce is process-wide: a call for another tab less than 300 ms
\* after call k cancels call k, which never gets a configuration read, a
\* cache lookup, an adapter call or a displayResponse message.
C7_DebounceProcessWide ==
    \A k \in 1..(Len(clicks) - 1) :
        (clicks[k + 1].tabId # clicks[k].tabId /\ Gap(k) < DEBOUNCE_DELAY)
            => ~Traces(k)

\* tab 1 then tab 2 within the delay, and the dispatch of tab 2 delivered
C7_Witness ==
    /\ Len(clicks) >= 2
    /\ clicks[1].tabId # clicks[2].tabId
    /\ Gap(1) < DEBOUNCE_DELAY
    /\ \E m \in 1..Len(inbox) : inbox[m].call = 2 /\ inbox[m].tabId = clicks[2].tabId

\* ----- retry -----
\* C2: with maxRetries = 3 the operation is invoked k+1 times when it fails
\* k <= 3 times and then succeeds, and its value is returned; it is invoked
\* 4 times when it always fails, and then the call fails; never more than 4.
C2_RetryCount ==
    \A i \in 1..Len(tasks) :
        LET t == tasks[i]
        IN  /\ t.attempts <= MAX_RETRIES + 1
            /\ t.outcome = "fetched" =>
                  /\ t.failures <= MAX_RETRIES
                  /\ t.attempts = t.failures + 1
                  /\ t.payload = t.answer
            /\ t.outcome = "failed" =>
                  /\ t.failures = MAX_RETRIES + 1
                  /\ t.attempts = MAX_RETRIES + 1
            /\ t.pc = "fetching" => t.attempts = t.failures + 1
            /\ t.pc = "sleeping" => t.attempts = t.failures /\ t.failures <= MAX_RETRIES

\* an operation that fails twice and then succeeds, delivered
C2_Witness ==
    \E i \in 1..Len(tasks) :
        /\ tasks[i].outcome = "fetched"
        /\ tasks[i].failures = 2
        /\ tasks[i].attempts = 3
        /\ tasks[i].pc = "delivered"

\* C8: for every provider, when every adapter call gets an HTTP 401, there
\* are 3 retries after waits of 1000, 2000 and 4000 ms and the string
\* delivered holds the hint to check the API key in the extension settings.
C8_AuthHintAfterRetries ==
    \A i \in 1..Len(tasks) :
        (tasks[i].outcome = "failed" /\ tasks[i].only401) =>
            /\ tasks[i].delays = <<1000, 2000, 4000>>
            /\ StartsWith(tasks[i].payload, ErrorMarker)
            /\ Includes(tasks[i].payload, KeyHint[1])

\* C12: whatever made an attempt fail (a bad credential, an unknown model,
\* a malformed or unreadable answer, a failed transport, another status that
\* is not 2xx), a failed attempt with fewer than 3 retries used is followed
\* by a wait and by another attempt: the dispatch fails only after the
\* fourth failure.
C12_AllFailuresRetried ==
    \A i \in 1..Len(tasks) :
        LET t == tasks[i]
        IN  /\ (t.failures >= 1 /\ t.failures <= MAX_RETRIES) =>
                  /\ t.outcome # "failed"
                  /\ \/ t.pc = "sleeping" /\ t.retries = t.failures - 1
                                         /\ t.wake = t.failedAt[t.failures] + BackoffDelay(t.retries)
                     \/ t.attempts = t.failures + 1 /\ t.retries = t.failures
            /\ t.outcome = "failed" => t.failures = MAX_RETRIES + 1 /\ t.retries = MAX_RETRIES

\* a bad credential at the first attempt, and the dispatch went on to a
\* fourth attempt, which failed on the transport
C12_Witness ==
    \E i \in 1..Len(tasks) :
        /\ Includes(tasks[i].firstError, KeyHint[1])
        /\ tasks[i].attempts = MAX_RETRIES + 1
        /\ tasks[i].lastResp = RespNetDown
        /\ tasks[i].outcome = "failed"

\* C13: when all 4 attempts of a dispatch fail, the error that leaves
\* retryWithBackoff is the error of the fourth attempt, not of an earlier
\* one, its message unchanged: the string handed to delivery is "Error: "
\* followed by the message the adapter gave for the fourth response.
C13_LastErrorPreserved ==
    \A i \in 1..Len(tasks) :
        LET t == tasks[i]
            res == FetchResponse(t.provider, t.model, t.lastResp)
        IN  t.outcome = "failed" =>
              /\ Len(t.attemptAt) = MAX_RETRIES + 1
              /\ ~res.ok
              /\ t.lastError = res.val
              /\ t.payload = ErrorMarker \o res.val
              /\ \A m \in 1..Len(inbox) : inbox[m].task = i => inbox[m].body = t.payload

\* the first attempt failed on the format, the fourth on the transport: the
\* content script got the error of the fourth
C13_Witness ==
    \E i \in 1..Len(tasks) :
        /\ tasks[i].outcome = "failed"
        /\ tasks[i].firstError = FormatMsg
        /\ tasks[i].lastResp = RespNetDown
        /\ tasks[i].provider = "gemini"
        /\ \E m \in 1..Len(inbox) :
              inbox[m].task = i /\ inbox[m].body = ErrorMarker \o FailedToFetch

\* the waits of retryWithBackoff with initialDelay = 1000
BackoffWaits == <<1000, 2000, 4000>>

\* C11: the wait before retry n (n = 1, 2, 3) is 1000 * 2^(n-1) ms, that is
\* 1000, 2000 and 4000 ms: attempt n+1 is made that long after attempt n
\* has failed.  There is no wait before the first attempt, none after an attempt
\* that succeeded and none after the fourth attempt that failed.
C11_BackoffSchedule ==
    \A i \in 1..Len(tasks) :
        LET t == tasks[i]
        IN  /\ IsPrefix(t.delays, BackoffWaits)
            /\ Len(t.attemptAt) = t.attempts
            /\ Len(t.failedAt) = t.failures
            /\ t.attempts >= 1 => t.attemptAt[1] = t.lookupAt
            /\ \A n \in 1..(t.attempts - 1) :
                   /\ n <= MAX_RETRIES
                   /\ t.attemptAt[n + 1] - t.failedAt[n] = INITIAL_RETRY_DELAY * Pow2(n - 1)
            /\ t.pc = "sleeping" =>
                   /\ Len(t.delays) = t.attempts
                   /\ t.wake = t.failedAt[t.attempts] + BackoffWaits[t.attempts]
            /\ t.pc = "fetching" => Len(t.delays) = t.attempts - 1
            /\ t.outcome = "fetched" =>
                   /\ Len(t.delays) = t.attempts - 1
                   /\ t.failures = t.attempts - 1
                   /\ t.handedAt = t.storedAt
            /\ t.outcome = "failed" =>
                   /\ t.delays = BackoffWaits
                   /\ t.attempts = Len(BackoffWaits) + 1
                   /\ t.handedAt = t.failedAt[t.attempts]

\* four attempts failed, 1000, 2000 and 4000 ms apart, and the error went
\* to delivery at the time of the fourth
C11_Witness ==
    \E i \in 1..Len(tasks) :
        /\ tasks[i].outcome = "failed"
        /\ tasks[i].attemptAt = <<300, 1300, 3300, 7300>>
        /\ tasks[i].handedAt = 7300

\* ----- cache -----
LookedUp == {j \in 1..Len(tasks) : tasks[j].lookups > 0}

SameQuery(i, j) ==
    /\ tasks[i].text = tasks[j].text
    /\ tasks[i].provider = tasks[j].provider
    /\ tasks[i].model = tasks[j].model

\* C3: an answer stored under a key at time t is delivered from the cache
\* by a dispatch that checks the key at t' when t' - t < 30 minutes; when
\* t' - t >= 30 minutes the entry counts as absent and the adapter is
\* invoked, although the entry is still in the map.
C3_CacheTtl ==
    \A j \in LookedUp :
        LET t == tasks[j]
        IN  t.found =>
              /\ t.foundBy \in 1..Len(tasks)
              /\ tasks[t.foundBy].storedAt = t.foundAt
              /\ tasks[t.foundBy].cacheKey = t.cacheKey
              /\ t.cacheKey \in DOMAIN responseCache
              /\ (t.lookupAt - t.foundAt < CACHE_EXPIRY) =>
                    /\ t.outcome = "hit"
                    /\ t.attempts = 0
                    /\ t.payload = tasks[t.foundBy].answer
              /\ (t.lookupAt - t.foundAt >= CACHE_EXPIRY) =>
                    /\ t.outcome # "hit"
                    /\ t.attempts >= 1

\* an entry of exactly 30 minutes is passed over and a fresh answer delivered
C3_Witness ==
    \E j \in LookedUp :
        /\ tasks[j].found
        /\ tasks[j].lookupAt - tasks[j].foundAt = CACHE_EXPIRY
        /\ tasks[j].outcome = "fetched"
        /\ tasks[j].pc = "delivered"

\* C4: scenario A.  A dispatch whose adapter call succeeds at once calls the
\* adapter once, stores the answer and delivers it.  A dispatch of the same
\* text, provider and model that checks the cache after that store and
\* within 30 minutes delivers the cached answer and calls no adapter.
C4_ScenarioA ==
    /\ \A i \in 1..Len(tasks) :
          (tasks[i].outcome = "fetched" /\ tasks[i].failures = 0) =>
              /\ tasks[i].attempts = 1
              /\ tasks[i].payload = tasks[i].answer
              /\ tasks[i].cacheKey \in DOMAIN responseCache
              /\ responseCache[tasks[i].cacheKey].by = i =>
                    /\ responseCache[tasks[i].cacheKey].data = tasks[i].answer
                    /\ responseCache[tasks[i].cacheKey].timestamp = tasks[i].storedAt
    /\ \A j \in LookedUp : \A i \in tasks[j].storedBefore :
          (SameQuery(i, j) /\ tasks[j].lookupAt - tasks[i].storedAt < CACHE_EXPIRY) =>
              /\ tasks[j].outcome = "hit"
              /\ tasks[j].attempts = 0
              /\ tasks[j].foundBy \in tasks[j].storedBefore
              /\ SameQuery(tasks[j].foundBy, j)
              /\ tasks[j].payload = tasks[tasks[j].foundBy].payload
              /\ tasks[tasks[j].foundBy].storedAt >= tasks[i].storedAt

\* the first dispatch fetched and delivered, the second delivered its answer
C4_Witness ==
    /\ Len(tasks) >= 2
    /\ tasks[1].outcome = "fetched" /\ tasks[1].pc = "delivered"
    /\ tasks[2].outcome = "hit" /\ tasks[2].pc = "delivered"
    /\ SameQuery(1, 2)
    /\ inbox[1].body = inbox[2].body

\* C6: an answer stored for (text, p1, m1) is not returned for the same text
\* under another model or another provider: that dispatch misses the cache
\* and invokes the adapter.
C6_CacheKeySensitivity ==
    \A j \in LookedUp :
        /\ (tasks[j].outcome = "hit" /\ tasks[tasks[j].foundBy].text = tasks[j].text) =>
              SameQuery(tasks[j].foundBy, j)
        /\ ( /\ tasks[j].storedBefore # {}
             /\ \A i \in tasks[j].storedBefore :
                   tasks[i].text = tasks[j].text /\ ~SameQuery(i, j) ) =>
              /\ tasks[j].outcome # "hit"
              /\ tasks[j].attempts >= 1

\* the answer of gemini/m1 is in the cache; the same text under another
\* model or provider was fetched anew
C6_Witness ==
    \E j \in LookedUp : \E i \in tasks[j].storedBefore :
        /\ tasks[i].text = tasks[j].text
        /\ ~SameQuery(i, j)
        /\ tasks[j].outcome = "fetched"
        /\ tasks[j].pc = "delivered"

\* ----- configuration gate -----
\* the store as the claim describes it: no apiConfig, no activeProvider, no
\* entry for the active provider, an empty selectedModel or an empty apiKey
Incomplete(st) ==
    \/ ~st.hasApiConfig
    \/ st.activeProvider = ""
    \/ st.activeProvider \notin DOMAIN st.apiConfig
    \/ st.apiConfig[st.activeProvider].selectedModel = Empty
    \/ st.apiConfig[st.activeProvider].apiKey = Empty

\* C5: a dispatch that reads an incomplete configuration makes no adapter
\* call and no retry, does not consult or modify the cache, and hands one
\* string that starts with "Error: " to delivery for its tab.
C5_ConfigGate ==
    \A i \in 1..Len(tasks) :
        (tasks[i].pc # "config" /\ Incomplete(tasks[i].read)) =>
            /\ tasks[i].attempts = 0
            /\ tasks[i].retries = 0
            /\ tasks[i].delays = <<>>
            /\ tasks[i].lookups = 0
            /\ \A k \in DOMAIN responseCache : responseCache[k].by # i
            /\ tasks[i].deliveries = 1
            /\ StartsWith(tasks[i].payload, ErrorMarker)
            /\ Len(tasks[i].payload) > Len(ErrorMarker)
            /\ tasks[i].tabId = clicks[tasks[i].call].tabId

\* a dispatch that found a provider with a model and no API key, delivered
C5_Witness ==
    \E i \in 1..Len(tasks) :
        /\ tasks[i].read.hasApiConfig
        /\ tasks[i].read.activeProvider \in DOMAIN tasks[i].read.apiConfig
        /\ tasks[i].read.apiConfig[tasks[i].read.activeProvider].apiKey = Empty
        /\ tasks[i].pc = "delivered"
        /\ tasks[i].payload = ErrorMarker \o NoKeyMsg

\* ----- delivery -----
DeliveryWaits == <<500, 750, 1125>>

Handed == {i \in 1..Len(tasks) : tasks[i].deliveries > 0}

\* C10: the string handed to delivery starts with "Error: " exactly when
\* the dispatch failed (configuration error, or adapter failure after the
\* retries); an answer or a cache hit is delivered unchanged, without the marker.
C10_MarkerIffFailure ==
    \A i \in Handed :
        /\ StartsWith(tasks[i].payload, ErrorMarker)
              <=> tasks[i].outcome \in {"configError", "failed"}
        /\ tasks[i].outcome = "fetched" => tasks[i].payload = tasks[i].answer
        /\ tasks[i].outcome = "hit" => tasks[i].payload = tasks[tasks[i].foundBy].answer

\* ----- frame effects -----
\* the steps that change the cache: a run that was waiting for its adapter
\* has its answer
CacheWrittenBySuccess ==
    \E i \in 1..Len(tasks) :
        /\ tasks[i].pc = "fetching"
        /\ tasks'[i].outcome = "fetched"
        /\ tasks'[i].deliveries = tasks[i].deliveries + 1
        /\ DOMAIN responseCache' = DOMAIN responseCache \cup {tasks[i].cacheKey}
        /\ responseCache'[tasks[i].cacheKey] =
              [data |-> tasks'[i].payload, timestamp |-> now, by |-> i]
        /\ \A k \in DOMAIN responseCache \ {tasks[i].cacheKey} :
              responseCache'[k] = responseCache[k]

\* C14: the cache is modified only in a dispatch whose adapter call
\* returned an answer, and there the entry is written before the delivery
\* of the answer starts; a dispatch that ends in a configuration error, in
\* a terminal failure of the adapter or in a cache hit leaves the cache as
\* it was.
C14_CacheWrittenOnSuccessOnly ==
    /\ [](\A i \in 1..Len(tasks) :
            /\ tasks[i].outcome = "fetched" => tasks[i].handedBy = i
            /\ tasks[i].outcome \in {"configError", "failed", "hit"} =>
                  \A k \in DOMAIN responseCache : responseCache[k].by # i)
    /\ [][responseCache' # responseCache => CacheWrittenBySuccess]_vars

\* a dispatch failed for good and left the cache empty; the next one got an
\* answer, and the cache held it when the delivery started
C14_Witness ==
    /\ Len(tasks) >= 2
    /\ tasks[1].outcome = "failed"
    /\ tasks[2].outcome = "fetched"
    /\ tasks[2].handedBy = 2
    /\ DOMAIN responseCache = {tasks[2].cacheKey}
    /\ responseCache[tasks[2].cacheKey].by = 2

\* the delivery of run i is under way
Delivering(i) == tasks[i].pc \in {"tabsGet", "sending", "waiting"}

\* what the fetch path of a run keeps: its retry counter and its calls of the adapter
FetchState(t) == <<t.retries, t.attempts, t.failures, t.delays, t.outcome, t.payload>>

\* C15: a delivery that fails or is retried never modifies the cache, never
\* makes another adapter call and never uses up or resets the retries of
\* the fetch: the counter of the delivery and the counter of the fetch are
\* separate, each run has its own.
C15_DeliveryIndependent ==
    /\ [](\A i \in 1..Len(tasks) :
            /\ tasks[i].deliveries > 0 =>
                  tasks[i].dRetries = DELIVERY_RETRIES - Len(tasks[i].dWaits)
                                        + (IF tasks[i].pc = "waiting" THEN 1 ELSE 0)
            /\ tasks[i].retries = Len(tasks[i].delays)
                                    - (IF tasks[i].pc = "sleeping" THEN 1 ELSE 0)
            /\ tasks[i].pc \in {"gaveUp", "tabGone"} =>
                  tasks[i].attempts = Len(tasks[i].attemptAt))
    /\ [][\A i \in 1..Len(tasks) :
            Delivering(i) =>
                /\ FetchState(tasks'[i]) = FetchState(tasks[i])
                /\ tasks'[i] # tasks[i] => responseCache' = responseCache]_vars

\* three adapter failures and then an answer; then the delivery failed four
\* times and was given up: both counters ran out, neither touched the other
C15_Witness ==
    \E i \in 1..Len(tasks) :
        /\ tasks[i].pc = "gaveUp"
        /\ tasks[i].outcome = "fetched"
        /\ tasks[i].retries = MAX_RETRIES
        /\ tasks[i].attempts = MAX_RETRIES + 1
        /\ tasks[i].dRetries = 0
        /\ tasks[i].sends = DELIVERY_RETRIES + 1
        /\ tasks[i].cacheKey \in DOMAIN responseCache

\* ----- concurrency -----
\* run i waits in a sleep that is not over: the backoff of retryWithBackoff
\* or the delay of a delivery
Asleep(i) == Sleeping(i) /\ tasks[i].wake > now

\* C16: while a run waits in a backoff or in the delay of a delivery, the
\* others are not held up: the timer of debounce fires when it is due, a
\* new selection is taken, and every other run can take its next step,
\* read the configuration, get the answer of its adapter, deliver.
C16_SleepsDoNotBlock ==
    \A i \in 1..Len(tasks) :
        Asleep(i) =>
            /\ (timeout.set /\ timeout.deadline <= now) => ENABLED DebounceFire
            /\ (\A d \in Deadlines : d > now) =>
                  /\ (Len(clicks) < MaxClicks /\ Active <= 1) =>
                        \A tab \in tabs : ENABLED ClickOverlap(<<"hello">>, tab)
                  /\ \A j \in 1..Len(tasks) :
                        /\ tasks[j].pc = "config" => ENABLED ConfigResolved(j)
                        /\ tasks[j].pc = "fetching" =>
                              \A r \in FrameResponses : ENABLED AdapterResponds(j, r)
                        /\ tasks[j].pc = "tabsGet" => ENABLED TabsGetReturns(j)
                        /\ tasks[j].pc = "sending" => ENABLED SendMessageOk(j)

\* the first run is still in its backoff; a later selection has missed the
\* cache, called its adapter and its answer is in the tab
C16_Witness ==
    /\ Len(tasks) >= 2
    /\ tasks[1].pc = "sleeping"
    /\ tasks[1].wake > now
    /\ tasks[2].call > tasks[1].call
    /\ tasks[2].outcome = "fetched"
    /\ tasks[2].pc = "delivered"
    /\ \E m \in 1..Len(inbox) : inbox[m].task = 2

\* what a run keeps from its start to its end
Identity(t) == <<t.call, t.text, t.tabId>>

\* the steps a run has made
Progress(t) == t.attempts + t.retries + t.deliveries + t.sends + Len(t.dWaits)

\* C17: once the timer of debounce has fired for a call, no later call, for
\* the same tab or another, cancels the run: a call changes no run, a run
\* is never dropped, reset or ended without its outcome; its retries go on
\* to an answer or to the fourth failure, and its outcome is handed to
\* delivery for the tab of its own call.
C17_NoCancellation ==
    /\ [](\A i \in 1..Len(tasks) :
            /\ tasks[i].tabId = clicks[tasks[i].call].tabId
            /\ tasks[i].deliveries <= 1
            /\ tasks[i].pc \in Final => tasks[i].deliveries = 1
            /\ tasks[i].deliveries = 1 =>
                  /\ tasks[i].outcome \in {"hit", "fetched", "failed"}
                  /\ tasks[i].outcome = "failed" => tasks[i].failures = MAX_RETRIES + 1
            /\ \A m \in 1..Len(inbox) : inbox[m].task = i => inbox[m].tabId = tasks[i].tabId)
    /\ [][/\ clicks' # clicks => tasks' = tasks
          /\ Len(tasks') >= Len(tasks)
          /\ \A i \in 1..Len(tasks) :
                /\ Identity(tasks'[i]) = Identity(tasks[i])
                /\ Progress(tasks'[i]) >= Progress(tasks[i])]_vars
    /\ \A i \in Slots :
          (Len(tasks) >= i) ~> (Len(tasks) >= i /\ tasks[i].deliveries = 1)

\* a selection was made in another tab while the first run was in its
\* retries; the first run went on to its fourth failure and its error is
\* in its own tab
C17_Witness ==
    /\ Len(clicks) >= 2
    /\ Len(tasks) >= 1
    /\ tasks[1].call = 1
    /\ clicks[2].tabId # clicks[1].tabId
    /\ tasks[1].failures >= 1
    /\ clicks[2].at > tasks[1].failedAt[1]
    /\ clicks[2].at < tasks[1].handedAt
    /\ tasks[1].outcome = "failed"
    /\ tasks[1].pc = "delivered"
    /\ \E m \in 1..Len(inbox) : inbox[m].task = 1 /\ inbox[m].tabId = clicks[1].tabId

\* ----- configuration store -----
\* the entries of the other providers are as they were
OthersKept(p) ==
    /\ DOMAIN storage'.apiConfig \ {p} = DOMAIN storage.apiConfig \ {p}
    /\ \A q \in DOMAIN storage.apiConfig \ {p} : storage'.apiConfig[q] = storage.apiConfig[q]

\* the save stored key and model under p and made p the active provider
StoredUnder(p, key, model) ==
    /\ storage'.hasApiConfig
    /\ p \in DOMAIN storage'.apiConfig
    /\ storage'.apiConfig[p] = [apiKey |-> key, selectedModel |-> model]
    /\ OthersKept(p)
    /\ storage'.activeProvider = p

\* C18 as claimed: a save with non-empty provider, API key and model stores
\* {apiKey, selectedModel} under that provider, leaves the entries of the
\* other providers as they were and makes the provider the active one; a
\* save with an empty provider, key or model writes nothing.
C18_SaveStoresFields ==
    [][\A p \in SaveProviders, k \in SaveKeys, m \in SaveModels :
          Save(p, k, m) =>
              IF p # "" /\ k # Empty /\ m # Empty
              THEN StoredUnder(p, k, m)
              ELSE storage' = storage]_vars

\* C18 as amended: the key and the model are trimmed first.  A save whose
\* provider, trimmed key and trimmed model are non-empty stores the trimmed
\* key and model under that provider, leaves the entries of the other
\* providers as they were and makes the provider the only active one; a
\* save where one of the three is empty, a key or a model of white space
\* included, writes nothing.
C18_SaveStoresTrimmedFields ==
    /\ [](storage.hasApiConfig => storage.activeProvider \in Providers \cup {""})
    /\ [][\A p \in SaveProviders, k \in SaveKeys, m \in SaveModels :
            Save(p, k, m) =>
                IF p # "" /\ TrimEnd(TrimStart(k)) # Empty /\ TrimEnd(TrimStart(m)) # Empty
                THEN StoredUnder(p, TrimEnd(TrimStart(k)), TrimEnd(TrimStart(m)))
                ELSE storage' = storage]_vars

\* groq was configured; a save for gemini with spaces around the key has
\* added gemini with the trimmed key, kept groq and made gemini active
C18_Witness ==
    /\ saves = 1
    /\ storage.activeProvider = "gemini"
    /\ DOMAIN storage.apiConfig = {"gemini", "groq"}
    /\ storage.apiConfig["gemini"] = [apiKey |-> <<"k2">>, selectedModel |-> <<"m1">>]
    /\ storage.apiConfig["groq"] = [apiKey |-> <<"k1">>, selectedModel |-> Empty]

\* ----- what the adapters make of a response -----
\* the runs that have the response of a request
Answered == {i \in 1..Len(tasks) : tasks[i].lastResp # RespNone}

\* C19: for each adapter, a 2xx response whose body has no answer (an empty
\* answer, a missing field, a body that is not JSON) makes the call fail
\* with "Unexpected API response format": no other error, no value returned.
C19_FormatNormalized ==
    \A i \in Answered :
        LET t == tasks[i]
            r == t.lastResp
        IN  (~r.net /\ Ok(r) /\ (~r.json \/ r.answer = Empty)) =>
                /\ t.failures >= 1
                /\ t.outcome # "fetched"
                /\ t.lastError = FormatMsg

\* C20: for each adapter, when fetch itself rejects with "Failed to fetch",
\* the call fails with "Network error. Please check your internet
\* connection." and not with the error of fetch.
C20_TransportNormalized ==
    \A i \in Answered :
        tasks[i].lastResp.net =>
            /\ tasks[i].failures >= 1
            /\ tasks[i].lastError = NetworkMsg

\* ----- timing of debounce -----
\* a run of the body starts in this step
BodyStarts == Len(tasks') = Len(tasks) + 1

\* C21 as claimed: the body runs 300 ms after the last call of a burst,
\* never earlier than 300 ms after any call, and two calls 300 ms or more
\* apart are not collapsed: each leads to its own run of the body.
C21_TrailingEdgeExact ==
    /\ [](\A k \in 1..(Len(clicks) - 1) :
            Gap(k) >= DEBOUNCE_DELAY => Cardinality(RunsOf(k)) = 1)
    /\ [][BodyStarts =>
            /\ tasks'[Len(tasks')].call = Len(clicks)
            /\ now = clicks[Len(clicks)].at + DEBOUNCE_DELAY]_vars

\* C21 as amended: every call restarts the timer, and the body runs when
\* the callback of the timer is run, which is 300 ms after the last call or
\* later, never earlier than 300 ms after any call.  A call made before the
\* callback of the pending timer has run replaces that timer, even when it
\* comes 300 ms or more after the call before; a call made after the
\* callback has run leaves that run alone, and each leads to its own run.
C21_TrailingEdgeAtLeast ==
    /\ [](/\ timeout.set =>
              /\ timeout.call = Len(clicks)
              /\ timeout.deadline = clicks[Len(clicks)].at + DEBOUNCE_DELAY
              /\ RunsOf(Len(clicks)) = {}
          /\ \A k \in 1..Len(clicks) :
                /\ Cardinality(RunsOf(k)) <= 1
                /\ (k < Len(clicks) /\ Gap(k) < DEBOUNCE_DELAY) => RunsOf(k) = {}
                /\ (k = Len(clicks) /\ ~timeout.set) => Cardinality(RunsOf(k)) = 1)
    /\ [][/\ BodyStarts =>
              /\ timeout.set /\ ~timeout'.set
              /\ tasks'[Len(tasks')].call = Len(clicks)
              /\ \A k \in 1..Len(clicks) : now >= clicks[k].at + DEBOUNCE_DELAY
          /\ clicks' # clicks =>
              /\ tasks' = tasks
              /\ timeout'.deadline = now + DEBOUNCE_DELAY
              /\ timeout'.call = Len(clicks')]_vars

\* two calls 300 ms apart or more: the timer of the first was due and had
\* not run when the second call came; the first has no run, the second has
\* one and its answer is in the tab
C21_Witness ==
    /\ Len(clicks) >= 2
    /\ Gap(1) >= DEBOUNCE_DELAY
    /\ RunsOf(1) = {}
    /\ \E i \in RunsOf(2) : tasks[i].pc = "delivered" /\ tasks[i].lookupAt >= clicks[2].at + DEBOUNCE_DELAY

\* ----- the delivery loop -----
\* C22: when the tab exists and chrome.tabs.sendMessage fails every time,
\* sendResponseToContent makes exactly 4 sends, the first and 3 retries,
\* with waits of 500, 750 and 1125 ms between them, each 1.5 times the one
\* before, and then stops for good: the delivery always comes to an end.
C22_BoundedDelivery ==
    /\ [](\A i \in 1..Len(tasks) :
            LET t == tasks[i]
            IN  /\ t.sends <= DELIVERY_RETRIES + 1
                /\ Len(t.dWaits) <= DELIVERY_RETRIES
                /\ Len(t.dWaits) >= 1 => t.dWaits[1] = DELIVERY_DELAY
                /\ \A n \in 1..(Len(t.dWaits) - 1) : 2 * t.dWaits[n + 1] = 3 * t.dWaits[n]
                /\ t.pc = "waiting" => t.sends = Len(t.dWaits) /\ t.wake > t.handedAt
                /\ t.pc = "gaveUp" =>
                      /\ t.sends = DELIVERY_RETRIES + 1
                      /\ t.dWaits = <<500, 750, 1125>>
                      /\ t.dRetries = 0)
    /\ [][\A i \in 1..Len(tasks) : tasks[i].pc \in Final => tasks'[i] = tasks[i]]_vars
    /\ \A i \in Slots :
          (Len(tasks) >= i /\ tasks[i].deliveries = 1)
              ~> (Len(tasks) >= i /\ tasks[i].pc \in Final)

\* the tab is there, four sends have failed, the last one 2375 ms after the
\* first, and the delivery has stopped
C22_Witness ==
    \E i \in 1..Len(tasks) :
        /\ tasks[i].pc = "gaveUp"
        /\ tasks[i].tabId \in tabs
        /\ tasks[i].sends = 4
        /\ now = tasks[i].handedAt + 500 + 750 + 1125

\* ----- every trigger answered -----
\* C23: for each click that sent the loading notice to a tab, a
\* displayResponse message that belongs to that click or to a later one is
\* in the end sent to the same tab, whatever triggers follow on any tab.
C23_EveryTriggerAnswered ==
    \A k \in Slots :
        (Len(clicks) >= k)
            ~> (\E m \in 1..Len(inbox) :
                    /\ Len(clicks) >= k
                    /\ inbox[m].action = "displayResponse"
                    /\ inbox[m].tabId = clicks[k].tabId
                    /\ inbox[m].call >= k)

\* ----- injective cache keys -----
\* C24: two distinct triples of query text, provider and model never give
\* the same cache key, texts and model names with '-' included: a dispatch
\* served from the cache delivers an answer that was fetched for its own
\* text, provider and model.
C24_CacheKeysInjective ==
    /\ \A i, j \in LookedUp :
          tasks[i].cacheKey = tasks[j].cacheKey => SameQuery(i, j)
    /\ \A j \in LookedUp :
          tasks[j].outcome = "hit" => SameQuery(tasks[j].foundBy, j)

\* ----- order of the answers of one tab -----
\* C25: the results of two dispatches for the same tab are handed to
\* delivery and sent in the order of their triggers: a displayResponse of an
\* earlier dispatch never follows one of a later dispatch on the same tab,
\* so the last message of a tab belongs to its most recent dispatch.
C25_PerTabOrder ==
    /\ \A i, j \in 1..Len(tasks) :
          ( /\ i < j
            /\ tasks[i].tabId = tasks[j].tabId
            /\ tasks[j].deliveries > 0 ) =>
              /\ tasks[i].deliveries > 0
              /\ tasks[i].handedAt <= tasks[j].handedAt
    /\ \A m, n \in 1..Len(inbox) :
          ( /\ m < n
            /\ inbox[m].action = "displayResponse"
            /\ inbox[n].action = "displayResponse"
            /\ inbox[m].tabId = inbox[n].tabId ) =>
              inbox[m].task <= inbox[n].task

\* ----- one fetch per key -----
\* a run inside retryWithBackoff: its adapter is called or it sleeps
\* between two attempts
InRetryLoop(i) == tasks[i].pc \in {"fetching", "sleeping"}

\* C26: at any time at most one run is inside its adapter call or retry
\* loop for a given cache key: a second dispatch of the same text, provider
\* and model that starts while the first still fetches calls no adapter.
C26_NoDuplicateFetch ==
    \A i, j \in 1..Len(tasks) :
        (i < j /\ InRetryLoop(i) /\ InRetryLoop(j)) =>
            tasks[i].cacheKey # tasks[j].cacheKey

\* ----- configuration snapshot -----
\* what a run read from the store when it started
Snapshot(t) ==
    [provider |-> t.read.activeProvider,
     model |-> t.read.apiConfig[t.read.activeProvider].selectedModel,
     apiKey |-> t.read.apiConfig[t.read.activeProvider].apiKey]

\* C27: a run reads the configuration once, after the timer of debounce
\* has fired; every attempt of the run calls the provider of that reading
\* with its model and its key, and the answer is stored under the key built
\* from the same reading, whatever is saved in the store while the run
\* retries.  Every entry of the cache holds an answer of the provider and
\* model of its key.
C27_ConfigSnapshot ==
    /\ \A i \in 1..Len(tasks) :
          /\ tasks[i].lookups <= 1
          /\ tasks[i].attempts = Len(tasks[i].calledWith)
          /\ tasks[i].attempts > 0 =>
                /\ tasks[i].lookups = 1
                /\ \A n \in 1..tasks[i].attempts :
                      tasks[i].calledWith[n] = Snapshot(tasks[i])
                /\ tasks[i].cacheKey =
                      CacheKey(tasks[i].text, Snapshot(tasks[i]).provider,
                               Snapshot(tasks[i]).model)
          /\ tasks[i].outcome = "fetched" =>
                tasks[i].cacheKey \in DOMAIN responseCache
    /\ \A key \in DOMAIN responseCache :
          LET w == responseCache[key].by
          IN  /\ w \in 1..Len(tasks)
              /\ tasks[w].outcome = "fetched"
              /\ key = CacheKey(tasks[w].text, Snapshot(tasks[w]).provider,
                                Snapshot(tasks[w]).model)
              /\ responseCache[key].data = tasks[w].payload
              /\ \A n \in 1..tasks[w].attempts :
                    /\ tasks[w].calledWith[n].provider = Snapshot(tasks[w]).provider
                    /\ tasks[w].calledWith[n].model = Snapshot(tasks[w]).model

\* a run failed once, the store was changed during its retries, and its
\* second attempt brought the answer that the cache now holds
C27_Witness ==
    \E i \in 1..Len(tasks) :
        /\ tasks[i].outcome = "fetched"
        /\ tasks[i].failures >= 1
        /\ tasks[i].pc = "delivered"
        /\ storage # tasks[i].read
        /\ responseCache[tasks[i].cacheKey].by = i

\* ----- one delivery per run -----
\* the displayResponse messages that the content scripts got from run i
Received(i) ==
    {m \in 1..Len(inbox) : inbox[m].action = "displayResponse" /\ inbox[m].task = i}

\* C28: a run starts one delivery, of a cache hit, of a fetched answer or
\* of an error text, never two; after a send of it has succeeded no other
\* send is made: no content script gets the result of a run twice.
C28_AtMostOneDelivery ==
    /\ [](\A i \in 1..Len(tasks) :
            /\ tasks[i].deliveries <= 1
            /\ tasks[i].deliveries = 1 <=>
                  tasks[i].outcome \in {"hit", "fetched", "failed", "configError"}
            /\ tasks[i].deliveries = 0 => tasks[i].sends = 0
            /\ Cardinality(Received(i)) <= 1
            /\ Received(i) # {} <=> tasks[i].pc = "delivered"
            /\ \A m \in Received(i) : inbox[m].body = tasks[i].payload)
    /\ [][\A i \in 1..Len(tasks) :
            /\ tasks[i].deliveries = 1 =>
                  /\ tasks'[i].deliveries = 1
                  /\ tasks'[i].payload = tasks[i].payload
                  /\ tasks'[i].outcome = tasks[i].outcome
            /\ tasks[i].pc = "delivered" =>
                  /\ tasks'[i] = tasks[i]
                  /\ Received(i)' = Received(i)]_vars

\* a run whose first sends failed and whose later send was received, once
C28_Witness ==
    \E i \in 1..Len(tasks) :
        /\ tasks[i].pc = "delivered"
        /\ tasks[i].sends >= 2
        /\ Cardinality(Received(i)) = 1

\* ----- termination of a run -----
\* C29: every run that the timer of debounce has started hands to the
\* delivery, in the end, an answer or a text that starts with "Error: ",
\* provided the reading of the configuration and every call of an adapter
\* come back; the retry loop makes at most MAX_RETRIES + 1 calls.
C29_DispatchTerminates ==
    /\ [](\A i \in 1..Len(tasks) :
            /\ tasks[i].attempts <= MAX_RETRIES + 1
            /\ tasks[i].retries <= MAX_RETRIES
            /\ tasks[i].deliveries = 1 =>
                  \/ tasks[i].outcome \in {"hit", "fetched"}
                  \/ /\ tasks[i].outcome \in {"failed", "configError"}
                     /\ StartsWith(tasks[i].payload, ErrorMarker))
    /\ \A i \in Slots :
          (Len(tasks) >= i)
              ~> (Len(tasks) >= i /\ tasks[i].deliveries = 1)

\* a run whose four calls of the adapter failed has handed its error text
\* to the delivery
C29_Witness ==
    \E i \in 1..Len(tasks) :
        /\ tasks[i].attempts = MAX_RETRIES + 1
        /\ tasks[i].failures = MAX_RETRIES + 1
        /\ tasks[i].outcome = "failed"
        /\ tasks[i].deliveries = 1
        /\ StartsWith(tasks[i].payload, ErrorMarker)

====
